---- MODULE Spec2Model ----
(***************************************************************************)
(* Model of the live capture layer of howl: the embeddable HowlClient      *)
(* (src/howl/client/howl_client.py) and the demo program's InferenceClient *)
(* (src/howl/run/demo.py).                                                 *)
(*                                                                         *)
(* A process runs one of the two front ends (variable program).  The       *)
(* object's fields are the model's variables; PyAudio, the logging module, *)
(* the hub and the inference engine are the environment, and every outcome *)
(* they can produce is a nondeterministic choice.                         *)
(*                                                                         *)
(* An audio chunk is an opaque bytes object; Chunk(k) is the k-th chunk    *)
(* the audio source produced.  All chunks of a stream have the same length *)
(* (frames_per_buffer), so b''.join of a buffer is determined by the       *)
(* sequence of its chunks, which is how the joined bytes are represented.  *)
(* np.float (lines 48 / 58) is taken as the alias of float it was in the   *)
(* NumPy releases the code was written for.                                *)
(*                                                                         *)
(* The transform library (src/ww4ff/data/transform/base.py) is modelled    *)
(* beside it for a training program (program = "train"): ZmuvTransform in  *)
(* float32 arithmetic (SpecZmuv), random_slice and batchify (SpecBatch)    *)
(* and WakeWordBatchifier (SpecBatchifier).  Every value the random module *)
(* can return is a nondeterministic choice, recorded with the call.        *)
(***************************************************************************)
EXTENDS Integers, Sequences, FiniteSets, TLC

\* ---------------------------------------------------------------- bounds
MaxChunks == 18       \* chunks the audio source produces in a run
MaxListeners == 2     \* add_listener calls in a run
MaxDevices == 3       \* length of the audio device list PyAudio enumerates
MaxStarts == 2        \* start() calls of a run that open a stream
ChunkSamples == 2     \* samples of a chunk the model keeps (a chunk has chunk_size of them)

\* ------------------------------------------------------ program constants
WindowChunks == 16        \* len(self._audio_buf) != 16
StrideChunks == 2         \* self._audio_buf[2:]
Int16Scale == 32767       \* / 32767
DefaultChunkSize == 500   \* chunk_size: int = 500
DefaultDevice == -1       \* device: int = -1
SampleRate == 16000       \* rate=16000

\* ------------------------------------------------------------ input sets
DeviceNames == {"pulse", "Pulse", "hw:0"}
\* (engine, context, device, chunk_size) given to HowlClient(...); the first is all defaults
CtorArgs == {<<"None", "None", DefaultDevice, DefaultChunkSize>>,
             <<"given", "None", 0, DefaultChunkSize>>,
             <<"given", "given", 1, 250>>}
ListenerIds == {"l1", "lx"}
RaisingListeners == {"lx"}          \* callbacks that raise when invoked
Vocab == <<"hey", "fire", "fox">>   \* ctx.vocab / words
LabelSequences == {<<0>>, <<1, 2>>} \* engine.sequence after a detection

RECURSIVE SeqsUpTo(_, _)
SeqsUpTo(S, k) ==
    IF k = 0 THEN {<<>>}
    ELSE LET shorter == SeqsUpTo(S, k - 1)
         IN  shorter \cup {Append(s, x) : s \in {t \in shorter : Len(t) = k - 1}, x \in S}

DeviceLists == SeqsUpTo(DeviceNames, MaxDevices)
RunDeviceLists == {<<"hw:0", "Pulse", "pulse">>}

\* The k-th chunk the audio source produces: int16 samples, all distinct.
Chunk(k) == [i \in 1..ChunkSamples |-> (k - 1) * ChunkSamples + i]
Zeros == [i \in 1..ChunkSamples |-> 0]     \* np.zeros(self.chunk_size)

\* What engine.infer can do with a window: raise, return False, or return True
\* having set engine.sequence.
EngineOutcomes ==
    {[kind |-> "raise", sequence |-> <<>>], [kind |-> "neg", sequence |-> <<>>]}
    \cup {[kind |-> "pos", sequence |-> q] : q \in LabelSequences}
DemoDevices == {<<"cpu">>, <<"cuda", 0>>}   \* torch.device(SETTINGS.training.device)

VARIABLES
    program,          \* "client": an application embedding HowlClient; "demo": demo.py;
                      \* "train": a training program calling the transform library
    infoEnabled,      \* the root logger is enabled for INFO
    staticGetDevice,  \* _get_device is looked up as a static method (see HowlClient_init)
    devs,             \* names of the audio devices, by device index 0..
    phase,            \* where the thread that builds and starts the object is: "none" |
                      \* "raised" | "opened" | "zeroed" | "buffered" | "deviced" (inside
                      \* InferenceClient.__init__) | "built" | "starting" (inside start())
    listeners, chunk_size, device, engine, ctx, words, audio, audio_buf, last_data, stream,
    active,           \* is_active() of the stream opened last
    replaced,         \* how many of the streams opened before it, which start() has
                      \* replaced, are active
    opened,           \* the calls of self._audio.open made so far
    enumerated,       \* the audio devices have been enumerated
    joinpc,           \* "idle" | "blocked" | "returned": the caller thread and join()
    hubLoads,         \* torch.hub.load calls made by the last from_pretrained
    handler,          \* InferenceClient._on_audio on the capture thread: the line it is
                      \* at ("idle" between two callbacks) and its local variables
    n,                \* chunks the handler has appended since the buffer was created
    delivered,        \* callbacks the stream has made
    err,              \* the exception the last operation raised, or "none"
    ret,              \* what the last handler invocation returned, <<>> if it raised
                      \* or has not returned yet
    inferred,         \* the last handler invocation called engine.infer
    window,           \* the tensor handed to the last engine.infer call
    prevWindow,       \* the tensor handed to the engine.infer call before it
    inferAt,          \* the values of n at which engine.infer was called
    notified,         \* listener calls made by the last handler invocation, in order
    console,          \* what the last handler invocation logged or printed
    zmuv,             \* the total, mean and mean2 of a ZmuvTransform
    fed,              \* the tensors given to update() without a mask, in order
    updates,          \* update() calls made on the transform
    anyMask,          \* one of them was given a mask (fed is then not kept)
    examples,         \* the list of examples a transform is called with
    batchifier,       \* the fields of the WakeWordBatchifier
    call,             \* the last transform call: its name, argument and random draws
    sliced,           \* the list random_slice returned
    pairs,            \* the (label, example) pairs WakeWordBatchifier built
    batch             \* the ClassificationBatch the last call returned

objVars == <<phase, listeners, chunk_size, device, engine, ctx, words, audio, audio_buf,
             last_data, stream>>
zmuvVars == <<zmuv, fed, updates, anyMask>>
batchVars == <<examples, batchifier, call, sliced, pairs, batch>>
libVars == <<zmuvVars, batchVars>>
envVars == <<program, infoEnabled, staticGetDevice, devs, libVars>>
obsVars == <<n, delivered, err, ret, inferred, window, prevWindow, inferAt, notified, console>>
vars == <<program, infoEnabled, staticGetDevice, devs, phase, listeners, chunk_size, device,
          engine, ctx, words, audio, audio_buf, last_data, stream, active, replaced, opened,
          enumerated, joinpc, hubLoads, handler, n, delivered, err, ret, inferred, window,
          prevWindow, inferAt, notified, console, zmuv, fed, updates, anyMask,
          examples, batchifier, call, sliced, pairs, batch>>

NoTensor == [samples |-> <<>>, device |-> <<>>]

\* No callback is running on the capture thread.
NoHandler == [pc |-> "idle", in_data |-> <<>>, audio_data |-> <<>>, inp |-> NoTensor,
              detected |-> FALSE, sequence |-> <<>>]

InitObject ==
    /\ phase = "none"
    /\ listeners = <<>>
    /\ chunk_size = 0
    /\ device = <<>>
    /\ engine = "None"
    /\ ctx = "None"
    /\ words = <<>>
    /\ audio = FALSE
    /\ audio_buf = <<>>
    /\ last_data = <<>>
    /\ stream = "unset"
    /\ active = FALSE
    /\ replaced = 0
    /\ opened = <<>>
    /\ enumerated = FALSE
    /\ joinpc = "idle"
    /\ hubLoads = 0
    /\ handler = NoHandler
    /\ n = 0
    /\ delivered = 0
    /\ err = "none"
    /\ ret = <<>>
    /\ inferred = FALSE
    /\ window = NoTensor
    /\ prevWindow = NoTensor
    /\ inferAt = {}
    /\ notified = <<>>
    /\ console = "nothing"

\* ZmuvTransform.__init__: the three buffers are torch.zeros(1).
ZmuvTransform_init == [total |-> 0, mean |-> <<"num", 0, 0>>, mean2 |-> <<"num", 0, 0>>]

\* No WakeWordBatchifier, no transform call made, no batch returned.
NoBatchifier == [negative_label |-> 0, positive_sample_prob |-> 0, window_size_ms |-> 0,
                 sample_rate |-> 0, positive_delta_ms |-> 0]
NoCall == [op |-> "none", arg |-> 0, draws |-> <<>>]
NoBatch == [audio_data |-> <<>>, labels |-> <<>>, labeled |-> FALSE, lengths |-> <<>>]

\* The transform library before any of its operations is called.
InitLibrary ==
    /\ zmuv = ZmuvTransform_init
    /\ fed = <<>>
    /\ updates = 0
    /\ anyMask = FALSE
    /\ examples = <<>>
    /\ batchifier = NoBatchifier
    /\ call = NoCall
    /\ sliced = <<>>
    /\ pairs = <<>>
    /\ batch = NoBatch

Init ==
    /\ program \in {"client", "demo"}
    /\ infoEnabled \in BOOLEAN
    /\ staticGetDevice \in BOOLEAN
    /\ devs \in RunDeviceLists
    /\ InitObject
    /\ InitLibrary

\* ------------------------------------------------------------ HowlClient

\* _get_device: -1 is the CPU, any other integer the GPU of that index.
get_device(d) ==
    IF d = -1 THEN <<"cpu">> ELSE <<"cuda", d>>

(* HowlClient.__init__.  _get_device is declared in the class body with the
   one parameter device and no @staticmethod (the decorator of line 28 is on
   list_pretrained), so self._get_device(device) of line 20 passes two
   arguments and raises TypeError after lines 18-19 ran: no object reaches
   the caller.  staticGetDevice = TRUE is a class whose _get_device has been
   rebound as a static method (a subclass, a patched class), the only way a
   HowlClient comes to exist; the other operations are modelled on it. *)
HowlClient_init(e, c, d, size) ==
    /\ program = "client"
    /\ phase = "none"
    /\ listeners' = <<>>
    /\ chunk_size' = size
    /\ IF staticGetDevice
       THEN /\ device' = get_device(d)
            /\ engine' = e
            /\ ctx' = c
            /\ audio' = TRUE
            /\ audio_buf' = <<>>
            /\ last_data' = Zeros
            /\ phase' = "built"
            /\ err' = "none"
       ELSE /\ phase' = "raised"
            /\ err' = "TypeError: _get_device() takes 1 positional argument but 2 were given"
            /\ UNCHANGED <<device, engine, ctx, audio, audio_buf, last_data>>
    /\ UNCHANGED <<envVars, words, stream, active, replaced, opened, enumerated, joinpc, hubLoads, handler,
                   n, delivered, ret, inferred, window, prevWindow, inferAt, notified,
                   console>>

\* add_listener: append, no de-duplication.
add_listener_list(ls, lis) == Append(ls, lis)

add_listener(lis) ==
    /\ program = "client"
    /\ phase = "built"
    /\ joinpc # "blocked"
    /\ Len(listeners) < MaxListeners
    /\ listeners' = add_listener_list(listeners, lis)
    /\ err' = "none"
    /\ UNCHANGED <<envVars, phase, chunk_size, device, engine, ctx, words, audio, audio_buf,
                   last_data, stream, active, replaced, opened, enumerated, joinpc, hubLoads, handler,
                   n, delivered, ret, inferred, window, prevWindow, inferAt, notified,
                   console>>

\* A from_pretrained that stores the fetched engine before relocating it.
from_pretrained_store_first(eng, cx, hubOk, toOk) ==
    IF ~hubOk THEN [engine |-> eng, ctx |-> cx, err |-> "HubError", loads |-> 1]
    ELSE IF ~toOk THEN [engine |-> "hub", ctx |-> cx, err |-> "DeviceError", loads |-> 1]
    ELSE [engine |-> "hub", ctx |-> "hub", err |-> "none", loads |-> 1]

\* from_pretrained: torch.hub.load, then engine.to(self.device), then the two
\* assignments.  hubOk / toOk are the outcomes of the two external calls.  The
\* right-hand side of line 97 is evaluated before self.engine is assigned.
from_pretrained_result(eng, cx, hubOk, toOk) ==
    IF ~hubOk THEN [engine |-> eng, ctx |-> cx, err |-> "HubError", loads |-> 1]
    ELSE IF ~toOk THEN [engine |-> eng, ctx |-> cx, err |-> "DeviceError", loads |-> 1]
    ELSE [engine |-> "hub", ctx |-> "hub", err |-> "none", loads |-> 1]

from_pretrained(hubOk, toOk) ==
    /\ program = "client"
    /\ phase = "built"
    /\ joinpc # "blocked"
    /\ LET r == from_pretrained_result(engine, ctx, hubOk, toOk)
       IN  /\ engine' = r.engine
           /\ ctx' = r.ctx
           /\ err' = r.err
           /\ hubLoads' = r.loads
    /\ UNCHANGED <<envVars, phase, listeners, chunk_size, device, words, audio, audio_buf,
                   last_data, stream, active, replaced, opened, enumerated, joinpc, handler,
                   n, delivered, ret, inferred, window, prevWindow, inferAt, notified,
                   console>>

\* A start() that checks the engine only.
start_check_engine_only(eng, cx) ==
    IF eng = "None" THEN "AttributeError: Please provide an InferenceEngine" ELSE "none"

\* Lines 63-70 of start(): the configuration error, or "none" to go on.
start_check(eng, cx) ==
    IF eng = "None" THEN "AttributeError: Please provide an InferenceEngine"
    ELSE IF cx = "None" THEN "AttributeError: Please provide an InferenceContext"
    ELSE "none"

\* Lines 72-77 of start(): the first index named exactly 'pulse', scanning
\* idx = 0, 1, ... and breaking at the first match; 0 when there is none.
\* Device indices are PyAudio's, from 0: index idx is names[idx + 1].
RECURSIVE scan_pulse(_, _)
scan_pulse(names, idx) ==
    IF idx >= Len(names) THEN 0
    ELSE IF names[idx + 1] = "pulse" THEN idx
    ELSE scan_pulse(names, idx + 1)

\* A scan without the break: the last index named 'pulse'.
RECURSIVE scan_pulse_no_break(_, _, _)
scan_pulse_no_break(names, idx, found) ==
    IF idx >= Len(names) THEN found
    ELSE scan_pulse_no_break(names, idx + 1, IF names[idx + 1] = "pulse" THEN idx ELSE found)

chosen_idx_last(names) == scan_pulse_no_break(names, 0, 0)

chosen_idx(names) == scan_pulse(names, 0)

open_call(idx, frames, callback) ==
    [format |-> "paInt16", channels |-> 1, rate |-> SampleRate, input |-> TRUE,
     input_device_index |-> idx, frames_per_buffer |-> frames, stream_callback |-> callback]

(* start(), lines 61-85: the check, the device scan and the open.  openOk is
   whether self._audio.open succeeds.  PyAudio starts a stream it opens, so
   from line 79 on the new stream is active and its thread can call the
   callback, while self.stream still holds what it held before: nothing, or
   the stream of an earlier start(), which stays open (nothing closes it). *)
HowlClient_start(openOk) ==
    /\ program = "client"
    /\ phase = "built"
    /\ joinpc # "blocked"
    /\ IF start_check(engine, ctx) # "none"
       THEN /\ err' = start_check(engine, ctx)
            /\ UNCHANGED <<phase, active, replaced, opened, enumerated>>
       ELSE /\ enumerated' = TRUE
            /\ IF openOk
               THEN /\ Len(opened) < MaxStarts
                    /\ opened' = Append(opened, open_call(chosen_idx(devs), chunk_size,
                                                          "HowlClient._on_audio"))
                    /\ replaced' = replaced + (IF active THEN 1 ELSE 0)
                    /\ active' = TRUE
                    /\ phase' = "starting"
                    /\ err' = "none"
               ELSE /\ err' = "OSError"
                    /\ UNCHANGED <<phase, active, replaced, opened>>
    /\ UNCHANGED <<envVars, listeners, chunk_size, device, engine, ctx, words, audio,
                   audio_buf, last_data, stream, joinpc, hubLoads, handler,
                   n, delivered, ret, inferred, window, prevWindow, inferAt, notified,
                   console>>

\* start(), lines 86-87: the stream is stored, and start_stream() on the
\* stream PyAudio already started changes nothing; start() returns.
HowlClient_start_store ==
    /\ program = "client"
    /\ phase = "starting"
    /\ stream' = "open"
    /\ phase' = "built"
    /\ err' = "none"
    /\ UNCHANGED <<envVars, listeners, chunk_size, device, engine, ctx, words, audio,
                   audio_buf, last_data, active, replaced, opened, enumerated, joinpc,
                   hubLoads, handler, n, delivered, ret, inferred, window, prevWindow, inferAt,
                   notified, console>>

\* join(): self.stream is read first (AttributeError before start() stored
\* it), then the loop polls is_active() every 0.1 s.
HowlClient_join ==
    /\ program = "client"
    /\ phase = "built"
    /\ joinpc # "blocked"
    /\ IF stream = "unset"
       THEN /\ err' = "AttributeError: no attribute 'stream'"
            /\ UNCHANGED joinpc
       ELSE /\ err' = "none"
            /\ joinpc' = "blocked"
    /\ UNCHANGED <<envVars, objVars, active, replaced, opened, enumerated, hubLoads, handler,
                   n, delivered, ret, inferred, window, prevWindow, inferAt, notified,
                   console>>

\* One evaluation of the loop condition of join(): "blocked" to sleep and
\* poll again, "returned" to leave the loop.
join_poll(isActive) == IF isActive THEN "blocked" ELSE "returned"

HowlClient_join_poll ==
    /\ program = "client"
    /\ joinpc = "blocked"
    /\ joinpc' = join_poll(active)
    /\ UNCHANGED <<envVars, objVars, active, replaced, opened, enumerated, hubLoads, handler, obsVars>>

\* ------------------------------------------------- the per-chunk handlers

\* str.title() of one vocabulary token.
TitleWord(w) ==
    CASE w = "hey" -> "Hey"
      [] w = "fire" -> "Fire"
      [] w = "fox" -> "Fox"
      [] OTHER -> w

\* ' '.join(vocab[x] for x in sequence).title(); label indices count from 0.
RECURSIVE phrase(_, _)
phrase(vocab, sequence) ==
    IF sequence = <<>> THEN ""
    ELSE IF Len(sequence) = 1 THEN TitleWord(vocab[sequence[1] + 1])
    ELSE TitleWord(vocab[sequence[1] + 1]) \o " " \o phrase(vocab, Tail(sequence))

\* b''.join(self._audio_buf)
RECURSIVE join_bytes(_)
join_bytes(buf) ==
    IF buf = <<>> THEN <<>> ELSE Head(buf) \o join_bytes(Tail(buf))

\* np.frombuffer(..., int16).astype(float) / 32767, then .float().to(device):
\* each sample s becomes the fraction s / 32767, kept as <<s, 32767>>.
to_tensor(audio_data, dev) ==
    [samples |-> [i \in 1..Len(audio_data) |-> <<audio_data[i], Int16Scale>>],
     device |-> dev]

\* HowlClient._on_audio, line 40
HowlClient_data_ok(in_data) == <<in_data, "paContinue">>

\* HowlClient._on_audio, line 43: the handler goes on to inference
HowlClient_window_full(buf) == Len(buf) = WindowChunks

\* A handler that assembles the window and drops nothing.
HowlClient_advance_none(buf) == buf

\* HowlClient._on_audio, line 47
HowlClient_advance(buf) == SubSeq(buf, StrideChunks + 1, Len(buf))

\* HowlClient._on_audio, lines 56-57: the listeners are called in list order;
\* a listener that raises ends the loop.
RECURSIVE HowlClient_dispatch(_, _)
HowlClient_dispatch(ls, sequence) ==
    IF ls = <<>> THEN [calls |-> <<>>, raised |-> FALSE]
    ELSE IF Head(ls) \in RaisingListeners
         THEN [calls |-> << <<Head(ls), sequence>> >>, raised |-> TRUE]
         ELSE LET r == HowlClient_dispatch(Tail(ls), sequence)
              IN  [calls |-> << <<Head(ls), sequence>> >> \o r.calls, raised |-> r.raised]

\* logging.info(f'{phrase} detected', end='\r'), line 54: Logger.info passes
\* the keyword on to Logger._log only when INFO is enabled, and _log has no
\* parameter end.
HowlClient_log(enabled) ==
    IF enabled THEN "TypeError: _log() got an unexpected keyword argument 'end'" ELSE "none"

(* HowlClient._on_audio(in_data), called with the one argument it declares,
   on the next chunk of a running capture.  The call is made on the thread
   that makes every other call on the client, and a callback of the stream
   is rejected before it reads or writes a field, so nothing changes the
   object between two lines of the handler: the call is one step. *)
HowlClient_on_audio(outcome) ==
    /\ program = "client"
    /\ phase = "built"
    /\ stream = "open"
    /\ active
    /\ n < MaxChunks
    /\ LET in_data == Chunk(n + 1)
           buf == Append(audio_buf, in_data)
       IN  /\ last_data' = in_data
           /\ n' = n + 1
           /\ IF ~HowlClient_window_full(buf)
              THEN /\ audio_buf' = buf
                   /\ ret' = HowlClient_data_ok(in_data)
                   /\ err' = "none"
                   /\ inferred' = FALSE
                   /\ notified' = <<>>
                   /\ UNCHANGED <<window, prevWindow, inferAt>>
              ELSE /\ audio_buf' = HowlClient_advance(buf)
                   /\ inferred' = TRUE
                   /\ window' = to_tensor(join_bytes(buf), device)
                   /\ prevWindow' = window
                   /\ inferAt' = inferAt \cup {n + 1}
                   /\ IF outcome.kind = "raise"
                      THEN /\ err' = "EngineError"
                           /\ ret' = <<>>
                           /\ notified' = <<>>
                      ELSE IF outcome.kind = "neg"
                      THEN /\ err' = "none"
                           /\ ret' = HowlClient_data_ok(in_data)
                           /\ notified' = <<>>
                      ELSE IF HowlClient_log(infoEnabled) # "none"
                      THEN /\ err' = HowlClient_log(infoEnabled)
                           /\ ret' = <<>>
                           /\ notified' = <<>>
                      ELSE LET r == HowlClient_dispatch(listeners, outcome.sequence)
                           IN  /\ notified' = r.calls
                               /\ err' = IF r.raised THEN "ListenerError" ELSE "none"
                               /\ ret' = IF r.raised THEN <<>>
                                         ELSE HowlClient_data_ok(in_data)
    /\ console' = "nothing"
    /\ UNCHANGED <<envVars, phase, listeners, chunk_size, device, engine, ctx, words, audio,
                   stream, active, replaced, opened, enumerated, joinpc, hubLoads, handler, delivered>>

\* Some stream HowlClient.start opened is active: the newest or a replaced one.
some_active == active \/ replaced > 0

(* A stream calling the callback start() installed, from the open of line 79
   on, stored in self.stream or not.  PyAudio calls
   stream_callback(in_data, frame_count, time_info, status); _on_audio
   declares (self, in_data), so the call raises TypeError before the body
   runs.  PyAudio prints the exception of a callback that raised and ends
   the stream that made the call (paAbort): that stream, the newest or a
   replaced one, is inactive from then on. *)
HowlClient_stream_callback ==
    /\ program = "client"
    /\ \/ /\ active
          /\ active' = FALSE
          /\ UNCHANGED replaced
       \/ /\ replaced > 0
          /\ replaced' = replaced - 1
          /\ UNCHANGED active
    /\ delivered' = delivered + 1
    /\ err' = "TypeError: _on_audio() takes 2 positional arguments but 5 were given"
    /\ ret' = <<>>
    /\ inferred' = FALSE
    /\ notified' = <<>>
    /\ console' = "nothing"
    /\ UNCHANGED <<envVars, objVars, opened, enumerated, joinpc, hubLoads, handler,
                   n, window, prevWindow, inferAt>>

(* A stream stops being active by something outside the process: the audio
   device goes away.  It is the stream opened last or a replaced one. *)
StreamDeactivated ==
    /\ \/ /\ active
          /\ active' = FALSE
          /\ UNCHANGED replaced
       \/ /\ replaced > 0
          /\ replaced' = replaced - 1
          /\ UNCHANGED active
    /\ UNCHANGED <<envVars, objVars, opened, enumerated, joinpc, hubLoads, handler, obsVars>>

\* ------------------------------------------------ demo.py: InferenceClient

\* InferenceClient.__init__, lines 27-32: the same scan as start()'s.
RECURSIVE InferenceClient_scan_pulse(_, _)
InferenceClient_scan_pulse(names, idx) ==
    IF idx >= Len(names) THEN 0
    ELSE IF names[idx + 1] = "pulse" THEN idx
    ELSE InferenceClient_scan_pulse(names, idx + 1)

InferenceClient_chosen_idx(names) == InferenceClient_scan_pulse(names, 0)

(* InferenceClient.__init__, lines 23-39: the fields engine, chunk_size,
   _audio and words, the device scan, and the open of the stream, which
   PyAudio starts at once: from here on the capture thread can call
   _on_audio while the constructor is still running. *)
InferenceClient_init_open(openOk) ==
    /\ program = "demo"
    /\ phase = "none"
    /\ engine' = "given"
    /\ chunk_size' = DefaultChunkSize
    /\ audio' = TRUE
    /\ words' = Vocab
    /\ enumerated' = TRUE
    /\ IF openOk
       THEN /\ opened' = Append(opened, open_call(InferenceClient_chosen_idx(devs),
                                                  DefaultChunkSize,
                                                  "InferenceClient._on_audio"))
            /\ active' = TRUE
            /\ phase' = "opened"
            /\ err' = "none"
       ELSE /\ phase' = "raised"
            /\ err' = "OSError"
            /\ UNCHANGED <<opened, active>>
    /\ UNCHANGED <<envVars, listeners, device, ctx, audio_buf, last_data, stream, replaced, joinpc,
                   hubLoads, handler, n, delivered, ret, inferred, window, prevWindow, inferAt,
                   notified, console>>

\* InferenceClient.__init__, line 40
InferenceClient_init_last_data ==
    /\ program = "demo"
    /\ phase = "opened"
    /\ last_data' = Zeros
    /\ phase' = "zeroed"
    /\ UNCHANGED <<envVars, listeners, chunk_size, device, engine, ctx, words, audio,
                   audio_buf, stream, active, replaced, opened, enumerated, joinpc, hubLoads, handler, obsVars>>

\* InferenceClient.__init__, line 41
InferenceClient_init_audio_buf ==
    /\ program = "demo"
    /\ phase = "zeroed"
    /\ audio_buf' = <<>>
    /\ phase' = "buffered"
    /\ UNCHANGED <<envVars, listeners, chunk_size, device, engine, ctx, words, audio,
                   last_data, stream, active, replaced, opened, enumerated, joinpc,
                   hubLoads, handler, obsVars>>

\* InferenceClient.__init__, line 42
InferenceClient_init_device(dev) ==
    /\ program = "demo"
    /\ phase = "buffered"
    /\ device' = dev
    /\ phase' = "deviced"
    /\ UNCHANGED <<envVars, listeners, chunk_size, engine, ctx, words, audio, audio_buf,
                   last_data, stream, active, replaced, opened, enumerated, joinpc,
                   hubLoads, handler, obsVars>>

\* InferenceClient.__init__, lines 43-44: the stream is stored, and
\* start_stream() on the stream PyAudio already started changes nothing.
InferenceClient_init_stream ==
    /\ program = "demo"
    /\ phase = "deviced"
    /\ stream' = "open"
    /\ phase' = "built"
    /\ UNCHANGED <<envVars, listeners, chunk_size, device, engine, ctx, words, audio,
                   audio_buf, last_data, active, replaced, opened, enumerated, joinpc,
                   hubLoads, handler, obsVars>>

\* InferenceClient._on_audio, line 51
InferenceClient_data_ok(in_data) == <<in_data, "paContinue">>

\* InferenceClient._on_audio, line 54: the handler goes on to inference
InferenceClient_window_full(buf) == Len(buf) = WindowChunks

\* A handler that drops the two newest chunks instead of the two oldest.
InferenceClient_advance_drop_newest(buf) == SubSeq(buf, 1, Len(buf) - StrideChunks)

\* InferenceClient._on_audio, line 57
InferenceClient_advance(buf) == SubSeq(buf, StrideChunks + 1, Len(buf))

\* The buffer InferenceClient holds after the stream delivered chunks 1..k
\* to a constructed object: lines 53-57 of _on_audio, k times.
RECURSIVE InferenceClient_buffer_after(_)
InferenceClient_buffer_after(k) ==
    IF k = 0 THEN <<>>
    ELSE LET buf == Append(InferenceClient_buffer_after(k - 1), Chunk(k))
         IN  IF InferenceClient_window_full(buf) THEN InferenceClient_advance(buf) ELSE buf

\* InferenceClient._on_audio, lines 61-64: what is printed, before the '\r'
InferenceClient_print(detected, vocab, sequence) ==
    IF detected THEN phrase(vocab, sequence) \o " detected"
    ELSE "                                "

(* InferenceClient._on_audio(in_data, frame_count, time_info, status), the
   stream's callback, runs on the capture thread while the main thread runs
   lines 40-44 of the constructor and then join(): each step below is a
   stretch of the handler inside which no write of the main thread changes
   what the handler does.  One callback runs at a time; the next chunk comes
   when the handler has returned.  PyAudio ends the stream whose callback
   raised (paAbort): a step that raises leaves the stream inactive.

   Lines 50-52: the callback is entered on the next chunk and stores it in
   last_data (which line 40 of the constructor may still overwrite). *)
InferenceClient_on_audio ==
    /\ program = "demo"
    /\ phase \in {"opened", "zeroed", "buffered", "deviced", "built"}
    /\ active
    /\ handler.pc = "idle"
    /\ delivered < MaxChunks
    /\ delivered' = delivered + 1
    /\ last_data' = Chunk(delivered + 1)
    /\ handler' = [NoHandler EXCEPT !.pc = "l53", !.in_data = Chunk(delivered + 1)]
    /\ err' = "none"
    /\ ret' = <<>>
    /\ inferred' = FALSE
    /\ console' = "nothing"
    /\ notified' = <<>>
    /\ UNCHANGED <<envVars, phase, listeners, chunk_size, device, engine, ctx, words, audio,
                   audio_buf, stream, active, replaced, opened, enumerated, joinpc, hubLoads,
                   n, window, prevWindow, inferAt>>

(* Lines 53-55: the append and the test.  Before line 41 of the constructor
   has run the object has no _audio_buf and line 53 raises AttributeError. *)
InferenceClient_on_audio_append ==
    /\ program = "demo"
    /\ handler.pc = "l53"
    /\ IF phase \in {"opened", "zeroed"}
       THEN /\ err' = "AttributeError: no attribute '_audio_buf'"
            /\ handler' = NoHandler
            /\ active' = FALSE
            /\ UNCHANGED <<audio_buf, n, ret>>
       ELSE LET buf == Append(audio_buf, handler.in_data)
            IN  /\ audio_buf' = buf
                /\ n' = n + 1
                /\ IF ~InferenceClient_window_full(buf)
                   THEN /\ ret' = InferenceClient_data_ok(handler.in_data)
                        /\ handler' = NoHandler
                   ELSE /\ handler' = [handler EXCEPT !.pc = "l56"]
                        /\ UNCHANGED ret
                /\ UNCHANGED <<err, active>>
    /\ UNCHANGED <<envVars, phase, listeners, chunk_size, device, engine, ctx, words, audio,
                   last_data, stream, replaced, opened, enumerated, joinpc, hubLoads,
                   delivered, inferred, window, prevWindow, inferAt, notified, console>>

\* Lines 56-57: the 16 chunks are joined, then the two oldest are dropped.
InferenceClient_on_audio_window ==
    /\ program = "demo"
    /\ handler.pc = "l56"
    /\ handler' = [handler EXCEPT !.pc = "l58", !.audio_data = join_bytes(audio_buf)]
    /\ audio_buf' = InferenceClient_advance(audio_buf)
    /\ UNCHANGED <<envVars, phase, listeners, chunk_size, device, engine, ctx, words, audio,
                   last_data, stream, active, replaced, opened, enumerated, joinpc, hubLoads,
                   obsVars>>

(* Lines 58-59: the tensor, moved to self.device.  Before line 42 of the
   constructor has run the object has no device and line 59 raises
   AttributeError, the engine not called. *)
InferenceClient_on_audio_tensor ==
    /\ program = "demo"
    /\ handler.pc = "l58"
    /\ IF phase = "buffered"
       THEN /\ err' = "AttributeError: no attribute 'device'"
            /\ handler' = NoHandler
            /\ active' = FALSE
       ELSE /\ handler' = [handler EXCEPT !.pc = "l60",
                                          !.inp = to_tensor(handler.audio_data, device)]
            /\ UNCHANGED <<err, active>>
    /\ UNCHANGED <<envVars, objVars, replaced, opened, enumerated, joinpc, hubLoads,
                   n, delivered, ret, inferred, window, prevWindow, inferAt, notified,
                   console>>

\* Line 60: engine.infer(inp), which raises, returns False, or returns True
\* having set engine.sequence.
InferenceClient_on_audio_infer(outcome) ==
    /\ program = "demo"
    /\ handler.pc = "l60"
    /\ inferred' = TRUE
    /\ window' = handler.inp
    /\ prevWindow' = window
    /\ inferAt' = inferAt \cup {n}
    /\ IF outcome.kind = "raise"
       THEN /\ err' = "EngineError"
            /\ handler' = NoHandler
            /\ active' = FALSE
       ELSE /\ handler' = [handler EXCEPT !.pc = "l61",
                                          !.detected = (outcome.kind = "pos"),
                                          !.sequence = outcome.sequence]
            /\ UNCHANGED <<err, active>>
    /\ UNCHANGED <<envVars, objVars, replaced, opened, enumerated, joinpc, hubLoads,
                   n, delivered, ret, notified, console>>

\* Lines 61-65: the print and the return.
InferenceClient_on_audio_print ==
    /\ program = "demo"
    /\ handler.pc = "l61"
    /\ console' = InferenceClient_print(handler.detected, words, handler.sequence)
    /\ ret' = InferenceClient_data_ok(handler.in_data)
    /\ handler' = NoHandler
    /\ UNCHANGED <<envVars, objVars, active, replaced, opened, enumerated, joinpc, hubLoads,
                   n, delivered, err, inferred, window, prevWindow, inferAt, notified>>

\* InferenceClient.join(), called by main() once the constructor returned.
InferenceClient_join ==
    /\ program = "demo"
    /\ phase = "built"
    /\ joinpc = "idle"
    /\ joinpc' = "blocked"
    /\ UNCHANGED <<envVars, objVars, active, replaced, opened, enumerated, hubLoads, handler, obsVars>>

\* One evaluation of the loop condition of InferenceClient.join().
InferenceClient_join_poll_result(isActive) == IF isActive THEN "blocked" ELSE "returned"

InferenceClient_join_poll ==
    /\ program = "demo"
    /\ joinpc = "blocked"
    /\ joinpc' = InferenceClient_join_poll_result(active)
    /\ UNCHANGED <<envVars, objVars, active, replaced, opened, enumerated, hubLoads, handler, obsVars>>

Next ==
    \/ \E a \in CtorArgs : HowlClient_init(a[1], a[2], a[3], a[4])
    \/ \E lis \in ListenerIds : add_listener(lis)
    \/ \E hubOk \in BOOLEAN, toOk \in BOOLEAN : from_pretrained(hubOk, toOk)
    \/ \E openOk \in BOOLEAN : HowlClient_start(openOk)
    \/ HowlClient_start_store
    \/ HowlClient_join
    \/ HowlClient_join_poll
    \/ \E outcome \in EngineOutcomes : HowlClient_on_audio(outcome)
    \/ HowlClient_stream_callback
    \/ StreamDeactivated
    \/ \E openOk \in BOOLEAN : InferenceClient_init_open(openOk)
    \/ InferenceClient_init_last_data
    \/ InferenceClient_init_audio_buf
    \/ \E dev \in DemoDevices : InferenceClient_init_device(dev)
    \/ InferenceClient_init_stream
    \/ InferenceClient_on_audio
    \/ InferenceClient_on_audio_append
    \/ InferenceClient_on_audio_window
    \/ InferenceClient_on_audio_tensor
    \/ \E outcome \in EngineOutcomes : InferenceClient_on_audio_infer(outcome)
    \/ InferenceClient_on_audio_print
    \/ InferenceClient_join
    \/ InferenceClient_join_poll

Spec == Init /\ [][Next]_vars


\* The lifecycle alone, over every device list: the device scan is a pure
\* function of the list, applied by start() and by the demo's constructor.
InitDevices ==
    /\ program \in {"client", "demo"}
    /\ infoEnabled \in BOOLEAN
    /\ staticGetDevice \in BOOLEAN
    /\ devs \in DeviceLists
    /\ InitObject
    /\ InitLibrary

NextDevices ==
    \/ \E a \in CtorArgs : HowlClient_init(a[1], a[2], a[3], a[4])
    \/ \E openOk \in BOOLEAN : HowlClient_start(openOk)
    \/ HowlClient_start_store
    \/ \E openOk \in BOOLEAN : InferenceClient_init_open(openOk)

SpecDevices == InitDevices /\ [][NextDevices]_vars

\* ------------------------------------------------ float32 tensor arithmetic

(* The tensors of src/ww4ff/data/transform/base.py are float32 (torch's
   default dtype; torch.zeros(1) of lines 135-137).  A float32 number is
   <<"num", m, e>>, standing for m * 2^e with m odd and |m| < 2^24, or m = 0
   and e = 0; <<"nan", 0, 0>> is NaN.  Every arithmetic result is rounded to
   the nearest such number, ties to the even mantissa, as IEEE 754 does; the
   exponent range is not modelled (no value of the model comes near it). *)
MantissaBits == 24
NaN == <<"nan", 0, 0>>
FZero == <<"num", 0, 0>>
IsNaN(x) == x[1] = "nan"
Abs(i) == IF i < 0 THEN 0 - i ELSE i
Sgn(i) == IF i < 0 THEN 0 - 1 ELSE 1

RECURSIVE Pow2(_)
Pow2(k) == IF k = 0 THEN 1 ELSE 2 * Pow2(k - 1)

RECURSIVE BitLen(_)
BitLen(a) == IF a = 0 THEN 0 ELSE 1 + BitLen(a \div 2)

\* The representation of m * 2^e with an odd mantissa.
RECURSIVE Canon(_, _)
Canon(m, e) ==
    IF m = 0 THEN FZero
    ELSE IF m % 2 = 0 THEN Canon(m \div 2, e + 1)
    ELSE <<"num", m, e>>

(* Round to nearest, ties to even: the float32 nearest to
   sign * (M + t) * 2^E, where M >= 0 and 0 < t < 1 if sticky, t = 0 if not.
   When sticky, M has more than 24 bits. *)
fl(sign, M, E, sticky) ==
    LET k == BitLen(M) - MantissaBits
    IN  IF k <= 0 THEN Canon(sign * M, E)
        ELSE LET q    == M \div Pow2(k)
                 r    == M % Pow2(k)
                 half == Pow2(k - 1)
                 up   == r > half \/ (r = half /\ (sticky \/ q % 2 = 1))
             IN  Canon(sign * (IF up THEN q + 1 ELSE q), E + k)

\* A Python int or an integer-valued sample as a float32.
FromInt(i) == fl(Sgn(i), Abs(i), 0, FALSE)

\* The position of a non-zero number's leading bit.
Top(x) == x[3] + BitLen(Abs(x[2]))

(* x + y.  The operand of larger magnitude is scaled to 29 bits and the other
   one aligned to it, the bits shifted out being kept as the sticky bit. *)
FAdd(x, y) ==
    IF IsNaN(x) \/ IsNaN(y) THEN NaN
    ELSE IF x[2] = 0 THEN y
    ELSE IF y[2] = 0 THEN x
    ELSE LET big    == IF Top(x) >= Top(y) THEN x ELSE y
             small  == IF Top(x) >= Top(y) THEN y ELSE x
             up     == 29 - BitLen(Abs(big[2]))
             X      == Abs(big[2]) * Pow2(up)
             EX     == big[3] - up
             s      == EX - small[3]
             Yq     == IF s <= 0 THEN Abs(small[2]) * Pow2(0 - s)
                       ELSE IF s >= MantissaBits THEN 0
                       ELSE Abs(small[2]) \div Pow2(s)
             sticky == s > 0
             same   == Sgn(big[2]) = Sgn(small[2])
             D      == IF same THEN X + Yq
                       ELSE X - Yq - (IF sticky THEN 1 ELSE 0)
         IN  fl(Sgn(big[2]) * Sgn(D), Abs(D), EX, sticky)

FNeg(x) == IF IsNaN(x) THEN NaN ELSE <<"num", 0 - x[2], x[3]>>
FSub(x, y) == FAdd(x, FNeg(y))

(* x * y.  A product of more than 30 bits is formed from the 12-bit halves of
   the mantissas as H * 2^24 + L and cut to 29 bits plus the sticky bit. *)
FMul(x, y) ==
    IF IsNaN(x) \/ IsNaN(y) THEN NaN
    ELSE IF x[2] = 0 \/ y[2] = 0 THEN FZero
    ELSE LET a    == Abs(x[2])
             b    == Abs(y[2])
             sign == Sgn(x[2]) * Sgn(y[2])
         IN  IF BitLen(a) + BitLen(b) <= 30
             THEN fl(sign, a * b, x[3] + y[3], FALSE)
             ELSE LET a1  == a \div 4096
                      a0  == a % 4096
                      b1  == b \div 4096
                      b0  == b % 4096
                      mid == a1 * b0 + a0 * b1
                      L0  == a0 * b0 + (mid % 4096) * 4096
                      L   == L0 % Pow2(24)
                      H   == a1 * b1 + (mid \div 4096) + (L0 \div Pow2(24))
                      c   == BitLen(H) - 5
                      M   == H * Pow2(24 - c) + (L \div Pow2(c))
                  IN  fl(sign, M, x[3] + y[3] + c, L % Pow2(c) # 0)

(* x / cnt for an element count 0 <= cnt < 32 (total + mask_size).  0 / 0 is
   NaN; with masks of zeros and ones the dividend is 0 or NaN whenever the
   count is 0, so no infinity arises. *)
FDivCount(x, cnt) ==
    IF IsNaN(x) \/ cnt = 0 THEN NaN
    ELSE IF x[2] = 0 THEN FZero
    ELSE LET k == 30 - BitLen(Abs(x[2]))
             M == Abs(x[2]) * Pow2(k)
         IN  fl(Sgn(x[2]), M \div cnt, x[3] - k, M % cnt # 0)

\* --------------------------------------------------------- ZmuvTransform

\* The concatenation of the sequences of a list, in order.
RECURSIVE Concat(_)
Concat(xs) == IF xs = <<>> THEN <<>> ELSE Head(xs) \o Concat(Tail(xs))

\* Everything of the capture layer, which the transform library never touches.
captureVars == <<objVars, obsVars, active, replaced, opened, enumerated, joinpc, hubLoads, handler>>

MaxTensorLen == 3     \* elements of one tensor
MaxUpdates == 2       \* update() calls on one transform
DataValues == {0 - 1, 2365}     \* integer-valued float32 samples

\* The 1-D tensors of at most MaxTensorLen samples, the empty one included.
Tensors == UNION {[1..k -> DataValues] : k \in 0..MaxTensorLen}
NoMask == [given |-> FALSE, m |-> <<>>]
\* The masks of zeros and ones of the shape of data.
MasksOf(data) == {[given |-> TRUE, m |-> w] : w \in [1..Len(data) -> {0, 1}]}

\* Tensor.sum() of float32 elements, accumulated from the first to the last.
RECURSIVE TensorSum(_)
TensorSum(t) ==
    IF t = <<>> THEN FZero
    ELSE FAdd(TensorSum(SubSeq(t, 1, Len(t) - 1)), t[Len(t)])

RECURSIVE IntSum(_)
IntSum(t) == IF t = <<>> THEN 0 ELSE t[1] + IntSum(Tail(t))

(* ZmuvTransform.update(data, mask): lines 140-148.  With a mask the data is
   multiplied by it and mask.sum() elements are counted, without one all
   data.numel() elements. *)
update(z, data, mask) ==
    LET x         == [i \in 1..Len(data) |->
                        IF mask.given THEN FMul(FromInt(data[i]), FromInt(mask.m[i]))
                        ELSE FromInt(data[i])]
        mask_size == IF mask.given THEN IntSum(mask.m) ELSE Len(data)
        sq        == [i \in 1..Len(x) |-> FMul(x[i], x[i])]
        cnt       == z.total + mask_size
    IN  [total |-> cnt,
         mean  |-> FDivCount(FAdd(TensorSum(x), FMul(z.mean, FromInt(z.total))), cnt),
         mean2 |-> FDivCount(FAdd(TensorSum(sq), FMul(z.mean2, FromInt(z.total))), cnt)]

\* ZmuvTransform.initialize(iterable): update, unmasked, on every tensor in turn.
RECURSIVE initialize(_, _)
initialize(z, xs) ==
    IF xs = <<>> THEN z ELSE initialize(update(z, Head(xs), NoMask), Tail(xs))

(* ZmuvTransform.std: (mean2 - mean ** 2).sqrt().  The square root of a
   negative number is NaN; <<"sqrt", m, e>> is the float32 nearest to the
   square root of the positive radicand m * 2^e. *)
radicand(z) == FSub(z.mean2, FMul(z.mean, z.mean))
std(z) ==
    LET r == radicand(z)
    IN  IF IsNaN(r) \/ r[2] < 0 THEN NaN
        ELSE IF r[2] = 0 THEN FZero
        ELSE <<"sqrt", r[2], r[3]>>

ZmuvUpdate(data) ==
    /\ program = "train"
    /\ updates < MaxUpdates
    /\ zmuv' = update(zmuv, data, NoMask)
    /\ fed' = IF anyMask THEN fed ELSE Append(fed, data)
    /\ updates' = updates + 1
    /\ UNCHANGED <<program, infoEnabled, staticGetDevice, devs, anyMask, batchVars>>
    /\ UNCHANGED captureVars

ZmuvUpdateMasked(data, mask) ==
    /\ program = "train"
    /\ updates < MaxUpdates
    /\ zmuv' = update(zmuv, data, mask)
    /\ fed' = <<>>
    /\ anyMask' = TRUE
    /\ updates' = updates + 1
    /\ UNCHANGED <<program, infoEnabled, staticGetDevice, devs, batchVars>>
    /\ UNCHANGED captureVars

ZmuvInitialize(xs) ==
    /\ program = "train"
    /\ updates + Len(xs) <= MaxUpdates
    /\ zmuv' = initialize(zmuv, xs)
    /\ fed' = IF anyMask THEN fed ELSE fed \o xs
    /\ updates' = updates + Len(xs)
    /\ UNCHANGED <<program, infoEnabled, staticGetDevice, devs, anyMask, batchVars>>
    /\ UNCHANGED captureVars

\* A training program that owns one fresh ZmuvTransform.
InitZmuv ==
    /\ program = "train"
    /\ infoEnabled = FALSE
    /\ staticGetDevice = FALSE
    /\ devs = <<>>
    /\ InitObject
    /\ InitLibrary

NextZmuv ==
    \/ \E data \in Tensors : ZmuvUpdate(data)
    \/ \E data \in Tensors : \E mask \in MasksOf(data) : ZmuvUpdateMasked(data, mask)
    \/ \E k \in 1..MaxUpdates : \E xs \in [1..k -> Tensors] : ZmuvInitialize(xs)

SpecZmuv == InitZmuv /\ [][NextZmuv]_vars

\* ------------------------------------------------ random_slice, batchify

MaxExamples == 3      \* examples in one list
MaxAudioLen == 3      \* samples of one waveform

(* An example is its waveform, a sequence of non-zero samples (its length is
   audio_data.size(-1)), the number of dimensions of audio_data, 1 for the
   shape (L,) and 2 for (1, L), and its frame_labels, a sequence of
   <<end_ms, label>> items.  Wave(k, L) is the waveform of the k-th example. *)
AudioDims == {1, 2}
Wave(k, L) == [i \in 1..L |-> 100 * k + i]
Unlabeled(k, L, d) == [audio |-> Wave(k, L), ndim |-> d, frame_labels |-> <<>>]
UnlabeledLists ==
    UNION {{[i \in 1..k |-> Unlabeled(i, ls[i], d)] :
               ls \in [1..k -> 0..MaxAudioLen], d \in AudioDims} : k \in 0..MaxExamples}

\* A random integer of a..b with the upper end left out.
randint_half_open(a, b) == a..(b - 1)

\* What random.randint(a, b) can return: both ends are included.
randint(a, b) == a..b

\* t[..., a:b] of Python on the last dimension.
SliceIndex(t, i) ==
    IF i < 0 THEN (IF Len(t) + i < 0 THEN 0 ELSE Len(t) + i)
    ELSE IF i > Len(t) THEN Len(t) ELSE i
Slice(t, a, b) == SubSeq(t, SliceIndex(t, a) + 1, SliceIndex(t, b))

\* EmplacableExample.emplaced_audio_data: a copy with the audio replaced.
emplaced_audio_data(ex, audio_data) == [ex EXCEPT !.audio = audio_data]

(* random_slice(examples, max_window_size), offs[i] being the value
   random.randint returned for the i-th example (lines 57-59). *)
random_slice(exs, max_window_size, offs) ==
    [i \in 1..Len(exs) |->
        IF Len(exs[i].audio) < max_window_size THEN exs[i]
        ELSE emplaced_audio_data(exs[i],
                 Slice(exs[i].audio, offs[i], offs[i] + max_window_size))]

\* The draws random_slice can make: one offset for every example it slices.
random_slice_draws(exs, max_window_size) ==
    {offs \in [1..Len(exs) -> 0..MaxAudioLen] :
        \A i \in 1..Len(exs) :
            IF Len(exs[i].audio) < max_window_size THEN offs[i] = 0
            ELSE offs[i] \in randint(0, Len(exs[i].audio) - max_window_size)}

(* sorted(xs, key=length, reverse=True): Python's sort is stable, with
   reverse=True too, so equal lengths keep their order.  by_length(lens) is
   the permutation: by_length(lens)[r] is the index of the r-th longest. *)
by_length(lens) ==
    [r \in 1..Len(lens) |->
        CHOOSE i \in 1..Len(lens) :
            r = 1 + Cardinality({j \in 1..Len(lens) :
                        lens[j] > lens[i] \/ (lens[j] = lens[i] /\ j < i)})]

RECURSIVE SeqMax(_)
SeqMax(xs) ==
    IF Len(xs) = 1 THEN xs[1]
    ELSE LET m == SeqMax(Tail(xs)) IN IF xs[1] > m THEN xs[1] ELSE m

(* Lines 64-69 and 119-123: the lengths, the maximum length, and every
   waveform squeezed, padded with zeros and stacked.  max() of an empty list
   raises ValueError; squeeze() turns a waveform of one sample, of shape (1,)
   or (1, 1), into a 0-dimensional tensor, which torch.cat refuses. *)
padded_stack(lens, waves) ==
    IF Len(lens) = 0
    THEN [err |-> "ValueError: max() arg is an empty sequence", audio_data |-> <<>>]
    ELSE IF \E i \in 1..Len(lens) : lens[i] = 1
    THEN [err |-> "RuntimeError: zero-dimensional tensor cannot be concatenated",
          audio_data |-> <<>>]
    ELSE [err |-> "none",
          audio_data |-> [i \in 1..Len(lens) |->
                             waves[i] \o [z \in 1..(SeqMax(lens) - lens[i]) |-> 0]]]

\* batchify(examples): lines 63-70.
batchify(exs) ==
    LET perm   == by_length([i \in 1..Len(exs) |-> Len(exs[i].audio)])
        sorted == [r \in 1..Len(exs) |-> exs[perm[r]]]
        lens   == [r \in 1..Len(exs) |-> Len(sorted[r].audio)]
        st     == padded_stack(lens, [r \in 1..Len(exs) |-> sorted[r].audio])
    IN  [err   |-> st.err,
         batch |-> IF st.err # "none" THEN NoBatch
                   ELSE [audio_data |-> st.audio_data, labels |-> <<>>,
                         labeled |-> FALSE, lengths |-> lens]]

RandomSlice(max_window_size, offs) ==
    /\ program = "train"
    /\ call.op = "none"
    /\ offs \in random_slice_draws(examples, max_window_size)
    /\ call' = [op |-> "random_slice", arg |-> max_window_size, draws |-> offs]
    /\ sliced' = random_slice(examples, max_window_size, offs)
    /\ err' = "none"
    /\ batch' = NoBatch
    /\ UNCHANGED <<program, infoEnabled, staticGetDevice, devs, zmuvVars, examples,
                   batchifier, pairs>>
    /\ UNCHANGED <<objVars, active, replaced, opened, enumerated, joinpc, hubLoads, handler, n, delivered,
                   ret, inferred, window, prevWindow, inferAt, notified, console>>

Batchify ==
    /\ program = "train"
    /\ call.op = "none"
    /\ call' = [op |-> "batchify", arg |-> 0, draws |-> <<>>]
    /\ err' = batchify(examples).err
    /\ batch' = batchify(examples).batch
    /\ sliced' = <<>>
    /\ UNCHANGED <<program, infoEnabled, staticGetDevice, devs, zmuvVars, examples,
                   batchifier, pairs>>
    /\ UNCHANGED <<objVars, active, replaced, opened, enumerated, joinpc, hubLoads, handler, n, delivered,
                   ret, inferred, window, prevWindow, inferAt, notified, console>>

\* A training program with a list of unlabeled examples at hand, to call one
\* of the two transforms on.
InitBatch ==
    /\ program = "train"
    /\ infoEnabled = FALSE
    /\ staticGetDevice = FALSE
    /\ devs = <<>>
    /\ InitObject
    /\ zmuv = ZmuvTransform_init
    /\ fed = <<>>
    /\ updates = 0
    /\ anyMask = FALSE
    /\ examples \in UnlabeledLists
    /\ batchifier = NoBatchifier
    /\ call = NoCall
    /\ sliced = <<>>
    /\ pairs = <<>>
    /\ batch = NoBatch

\* The program makes one call; the draws are listed only while it has not.
NextBatch ==
    \/ \E w \in 0..(MaxAudioLen + 1) :
          /\ call.op = "none"
          /\ \E offs \in random_slice_draws(examples, w) : RandomSlice(w, offs)
    \/ Batchify

SpecBatch == InitBatch /\ [][NextBatch]_vars

\* ---------------------------------------------------- WakeWordBatchifier

MaxBatch == 2         \* examples in one call of the batchifier
HardcodedRate == 16000

(* random.random() in quarters, and the positive_sample_prob values 0, 0.5
   and 1 in quarters.  random.random() is in [0, 1): it can be 0.0, never 1. *)
RandomQuarters == {0, 1, 3}
ProbQuarters == {0, 2, 4}

\* The batchifiers: negative_label 0, the default sample rate, short windows.
Batchifiers ==
    [negative_label : {0}, positive_sample_prob : ProbQuarters, window_size_ms : {1, 2},
     sample_rate : {16000}, positive_delta_ms : {0, 1}]

\* frame_labels dictionaries, as their items in insertion order.
FrameLabelSets == {<< <<0, 1>> >>, << <<3, 1>> >>, << <<1, 2>>, <<2, 1>> >>}

\* The clips of a dataset whose audio tensors have d dimensions.
Clips(k, d) ==
    {Unlabeled(k, L, d) : L \in {5, 17}}
    \cup {[audio |-> Wave(k, 48), ndim |-> d, frame_labels |-> f] : f \in FrameLabelSets}
ClipLists ==
    UNION {UNION {{xs \in [1..k -> Clips(1, d) \cup Clips(2, d) \cup Clips(3, d)] :
                      \A i \in 1..k : xs[i] \in Clips(i, d)} : d \in AudioDims} :
           k \in 0..MaxBatch}

(* int(sample_rate * ms / 1000) of line 91 and int((ms / 1000) * sample_rate)
   of lines 96-97.  Both are computed in double precision and truncated; for
   the times of this model (below 1001 ms) both equal the integer quotient. *)
to_samples(ms, sample_rate) == (ms * sample_rate) \div 1000

(* int(len(ex.audio_data) / 16000 * 1000) of line 112: len() is the size of
   the first dimension, the number of samples of a 1-dimensional tensor and 1
   for the shape (1, L). *)
clip_ms(ex) == ((IF ex.ndim = 1 THEN Len(ex.audio) ELSE 1) * 1000) \div HardcodedRate

\* Line 93: select_negative = random.random() > self.positive_sample_prob.
select_negative(r, prob) == r > prob

\* Line 98: b - a == 0.
zero_width(a, b) == b - a = 0

\* Lines 96-97: the sample span <<a, b>> of the window that ends at end_ms.
positive_span(end_ms, bf) ==
    LET b  == to_samples(end_ms, bf.sample_rate)
        lo == b - to_samples(bf.window_size_ms, bf.sample_rate)
    IN  <<IF lo > 0 THEN lo ELSE 0, b>>

\* sorted(..., key=lambda x: x[0]): the stable ascending order of the starts.
by_start(starts) ==
    [r \in 1..Len(starts) |->
        CHOOSE i \in 1..Len(starts) :
            r = 1 + Cardinality({j \in 1..Len(starts) :
                        starts[j] < starts[i] \/ (starts[j] = starts[i] /\ j < i)})]

(* Lines 103-105: one interval (v - delta, v + delta) for every v of
   ex.frame_labels.values(), the label of each item, sorted by start. *)
positive_intervals(ex, bf) ==
    LET raw  == [i \in 1..Len(ex.frame_labels) |->
                    <<ex.frame_labels[i][2] - bf.positive_delta_ms,
                      ex.frame_labels[i][2] + bf.positive_delta_ms>>]
        perm == by_start([i \in 1..Len(raw) |-> raw[i][1]])
    IN  [r \in 1..Len(raw) |-> raw[perm[r]]]

\* Lines 107-111: the gaps left of each positive interval.
RECURSIVE gaps(_, _)
gaps(pis, last_positive) ==
    IF pis = <<>> THEN <<>>
    ELSE (IF last_positive < pis[1][1] THEN << <<last_positive, pis[1][1]>> >> ELSE <<>>)
         \o gaps(Tail(pis), pis[1][2])

\* Lines 106-112: the gaps and the final interval up to the end of the clip.
negative_intervals(ex, bf) ==
    LET pis == positive_intervals(ex, bf)
    IN  gaps(pis, 0) \o << <<pis[Len(pis)][2], clip_ms(ex)>> >>

\* Lines 114-116: the span cut from the chosen interval, off being the randint.
negative_span(chosen, bf, off) ==
    IF chosen[2] - chosen[1] > bf.window_size_ms
    THEN <<off, off + bf.window_size_ms>>
    ELSE chosen

\* The random.choice and random.randint outcomes of the negative path.
negative_draws(ex, bf) ==
    LET nis == negative_intervals(ex, bf)
    IN  UNION {{<<k, off>> :
                  off \in IF nis[k][2] - nis[k][1] > bf.window_size_ms
                          THEN randint(0, nis[k][2] - bf.window_size_ms) ELSE {0}} :
              k \in 1..Len(nis)}

\* A window of one second whatever window_size_ms is.
unlabeled_window_one_second(bf) == bf.sample_rate

\* The window of an unlabeled example, in samples (line 91).
unlabeled_window(bf) == to_samples(bf.window_size_ms, bf.sample_rate)

(* The random outcomes of one pass of the loop of lines 88-117 for ex: neg is
   random.random() > positive_sample_prob, item the index of the
   random.choice among frame_labels.items(), interval the index of the
   random.choice among the negative intervals, offset the random.randint of
   line 115 or of random_slice; 0 where the code makes no such draw. *)
example_draws(ex, bf) ==
    IF ex.frame_labels = <<>>
    THEN {[neg |-> FALSE, item |-> 0, interval |-> 0, offset |-> o[1]] :
             o \in random_slice_draws(<<ex>>, unlabeled_window(bf))}
    ELSE {[neg |-> TRUE, item |-> 0, interval |-> d[1], offset |-> d[2]] :
             d \in IF \E r \in RandomQuarters : select_negative(r, bf.positive_sample_prob)
                   THEN negative_draws(ex, bf) ELSE {}}
         \cup
         UNION {{[neg |-> FALSE, item |-> i, interval |-> d[1], offset |-> d[2]] :
                    d \in IF zero_width(positive_span(ex.frame_labels[i][1], bf)[1],
                                        positive_span(ex.frame_labels[i][1], bf)[2])
                          THEN negative_draws(ex, bf) ELSE {<<0, 0>>}} :
                i \in IF \E r \in RandomQuarters : ~select_negative(r, bf.positive_sample_prob)
                      THEN 1..Len(ex.frame_labels) ELSE {}}

(* One pass of the loop of lines 88-117 with the draws d: what was computed
   on the way and new, the pairs appended to new_examples. *)
batch_example(ex, bf, d) ==
    IF ex.frame_labels = <<>>
    THEN [path |-> "unlabeled", attempted |-> FALSE, item |-> <<0, 0>>, span |-> <<0, 0>>,
          exclusion |-> <<>>, intervals |-> <<>>, chosen |-> <<0, 0>>, cut |-> <<0, 0>>,
          new |-> << <<bf.negative_label,
                       random_slice(<<ex>>, unlabeled_window(bf), <<d.offset>>)[1]>> >>]
    ELSE LET attempted == ~d.neg
             item      == IF attempted THEN ex.frame_labels[d.item] ELSE <<0, 0>>
             span      == IF attempted THEN positive_span(item[1], bf) ELSE <<0, 0>>
             positive  == attempted /\ ~zero_width(span[1], span[2])
             negative  == d.neg \/ (attempted /\ zero_width(span[1], span[2]))
             nis       == negative_intervals(ex, bf)
             chosen    == IF negative THEN nis[d.interval] ELSE <<0, 0>>
             cut       == IF negative THEN negative_span(chosen, bf, d.offset) ELSE <<0, 0>>
         IN  [path |-> IF negative THEN "negative" ELSE "positive",
              attempted |-> attempted, item |-> item, span |-> span,
              exclusion |-> IF negative THEN positive_intervals(ex, bf) ELSE <<>>,
              intervals |-> IF negative THEN nis ELSE <<>>,
              chosen |-> chosen, cut |-> cut,
              new |-> (IF positive
                       THEN << <<item[2],
                                 emplaced_audio_data(ex, Slice(ex.audio, span[1], span[2]))>> >>
                       ELSE <<>>)
                      \o
                      (IF negative
                       THEN << <<bf.negative_label,
                                 emplaced_audio_data(ex, Slice(ex.audio, cut[1], cut[2]))>> >>
                       ELSE <<>>)]

\* WakeWordBatchifier.__call__: lines 86-125.
wake_word_batchifier(exs, bf, ds) ==
    LET passes == [i \in 1..Len(exs) |-> batch_example(exs[i], bf, ds[i])]
        new    == Concat([i \in 1..Len(exs) |-> passes[i].new])
        perm   == by_length([i \in 1..Len(new) |-> Len(new[i][2].audio)])
        sorted == [r \in 1..Len(new) |-> new[perm[r]]]
        lens   == [r \in 1..Len(new) |-> Len(sorted[r][2].audio)]
        st     == padded_stack(lens, [r \in 1..Len(new) |-> sorted[r][2].audio])
    IN  [passes |-> passes,
         new_examples |-> new,
         err   |-> st.err,
         batch |-> IF st.err # "none" THEN NoBatch
                   ELSE [audio_data |-> st.audio_data,
                         labels |-> [r \in 1..Len(new) |-> sorted[r][1]],
                         labeled |-> TRUE, lengths |-> lens]]

WakeWordBatchify(ds) ==
    /\ program = "train"
    /\ call.op = "none"
    /\ Len(ds) = Len(examples)
    /\ \A i \in 1..Len(examples) : ds[i] \in example_draws(examples[i], batchifier)
    /\ LET res == wake_word_batchifier(examples, batchifier, ds)
       IN  /\ call' = [op |-> "WakeWordBatchifier", arg |-> 0, draws |-> res.passes]
           /\ pairs' = res.new_examples
           /\ err' = res.err
           /\ batch' = res.batch
    /\ sliced' = <<>>
    /\ UNCHANGED <<program, infoEnabled, staticGetDevice, devs, zmuvVars, examples,
                   batchifier>>
    /\ UNCHANGED <<objVars, active, replaced, opened, enumerated, joinpc, hubLoads, handler, n, delivered,
                   ret, inferred, window, prevWindow, inferAt, notified, console>>

\* The sequences of draws of one call on the list exs.
RECURSIVE call_draws(_, _)
call_draws(exs, bf) ==
    IF exs = <<>> THEN {<<>>}
    ELSE {<<d>> \o rest : d \in example_draws(Head(exs), bf), rest \in call_draws(Tail(exs), bf)}

\* A training program with a batchifier and a list of clips at hand.
InitBatchifier ==
    /\ program = "train"
    /\ infoEnabled = FALSE
    /\ staticGetDevice = FALSE
    /\ devs = <<>>
    /\ InitObject
    /\ zmuv = ZmuvTransform_init
    /\ fed = <<>>
    /\ updates = 0
    /\ anyMask = FALSE
    /\ examples \in ClipLists
    /\ batchifier \in Batchifiers
    /\ call = NoCall
    /\ sliced = <<>>
    /\ pairs = <<>>
    /\ batch = NoBatch

NextBatchifier ==
    /\ call.op = "none"
    /\ \E ds \in call_draws(examples, batchifier) : WakeWordBatchify(ds)

SpecBatchifier == InitBatchifier /\ [][NextBatchifier]_vars

\* ---------------------------------------------------------------- claims

\* The chunk the handler was last given: the n-th of the client's capture,
\* the delivered-th callback of the demo's stream.
LastChunkNo == IF program = "client" THEN n ELSE delivered

\* The newest chunk a handler has appended or tried to append: the demo's
\* handler has not reached line 53 with the chunk it was entered on.
LastAppendedNo == IF handler.pc = "l53" THEN LastChunkNo - 1 ELSE LastChunkNo

\* No callback is between its first line and its return.
HandlerIdle == handler.pc = "idle"

\* The object has its buffer: line 25 of HowlClient.__init__, line 41 of
\* InferenceClient.__init__ has run.
HasBuffer == phase \in {"built", "starting", "buffered", "deviced"}

(* C1: counting the chunks the handler is given from an empty buffer, the
   engine is called while handling chunk k exactly for the even k >= 16: not
   for chunks 1..15, on the 16th, not on the 17th (the buffer then holds 15
   chunks), on the 18th, and so on, in HowlClient and in InferenceClient. *)
C1_InferenceCadence ==
    HandlerIdle =>
        /\ inferAt = {k \in 1..n : k >= 16 /\ k % 2 = 0}
        /\ (HasBuffer /\ n < 16) => Len(audio_buf) = n
        /\ (HasBuffer /\ n >= 16) => Len(audio_buf) = 14 + (n % 2)

(* C2: the window handed to the engine is the 16 most recently delivered
   chunks in arrival order, each sample divided by 32767; once it is
   assembled the buffer holds the newest 14 of them, so consecutive windows
   share 14 chunks; the buffer always holds consecutive chunks ending with
   the newest one. *)
C2_WindowIsLast16 ==
    /\ HasBuffer =>
          \A i \in 1..Len(audio_buf) :
              audio_buf[i] = Chunk(LastAppendedNo - Len(audio_buf) + i)
    /\ inferred =>
          /\ Len(window.samples) = 16 * ChunkSamples
          /\ \A i \in 1..Len(window.samples) :
                window.samples[i] = <<(LastChunkNo - 16) * ChunkSamples + i, 32767>>
          /\ Len(audio_buf) = 14
          /\ prevWindow # NoTensor =>
                SubSeq(prevWindow.samples, 2 * ChunkSamples + 1, 16 * ChunkSamples)
                    = SubSeq(window.samples, 1, 14 * ChunkSamples)

C2_Witness ==
    /\ program = "demo"
    /\ inferred
    /\ prevWindow # NoTensor
    /\ delivered = 18

(* C3: start() on a client whose engine or context is unset raises the
   configuration error and does nothing else: no device enumeration, no
   open, no stream stored, buffer and listeners as they were. *)
C3_StartNeedsEngineAndContext ==
    [][\A openOk \in BOOLEAN :
          (HowlClient_start(openOk) /\ (engine = "None" \/ ctx = "None")) =>
              /\ err' \in {"AttributeError: Please provide an InferenceEngine",
                           "AttributeError: Please provide an InferenceContext"}
              /\ ~enumerated'
              /\ opened' = <<>>
              /\ stream' = "unset"
              /\ ~active'
              /\ audio_buf' = audio_buf
              /\ listeners' = listeners]_vars

C3_Witness ==
    /\ err = "AttributeError: Please provide an InferenceContext"
    /\ engine # "None"
    /\ Len(listeners) = 2
    /\ stream = "unset"
    /\ opened = <<>>

NoRaisingListener == \A i \in 1..Len(listeners) : listeners[i] \notin RaisingListeners

(* C4: a chunk whose inference is positive makes HowlClient call every
   registered listener, once per registration and in registration order,
   with the engine's label sequence; a chunk with no inference or a negative
   one calls none.  (Stated for engines that return and listeners that do
   not raise.) *)
C4_ListenersNotified ==
    [][\A o \in EngineOutcomes :
          (HowlClient_on_audio(o) /\ o.kind # "raise" /\ NoRaisingListener) =>
              notified' = IF inferred' /\ o.kind = "pos"
                          THEN [i \in 1..Len(listeners) |-> <<listeners[i], o.sequence>>]
                          ELSE <<>>]_vars

(* C5: every invocation of HowlClient's handler returns (the chunk just
   delivered, paContinue).  (Stated for engines that return and listeners
   that do not raise.) *)
C5_HandlerReturnsContinue ==
    [][\A o \in EngineOutcomes :
          (HowlClient_on_audio(o) /\ o.kind # "raise" /\ NoRaisingListener) =>
              ret' = <<Chunk(n + 1), "paContinue">>]_vars

(* C6: constructing a HowlClient, with any options, completes: the device
   is the CPU for selector -1 and the GPU of index d otherwise, the listener
   list and the buffer are empty, the audio handle is open, no stream is. *)
C6_ConstructionCompletes ==
    [][\A a \in CtorArgs :
          HowlClient_init(a[1], a[2], a[3], a[4]) =>
              /\ phase' = "built"
              /\ err' = "none"
              /\ device' = (IF a[3] = -1 THEN <<"cpu">> ELSE <<"cuda", a[3]>>)
              /\ listeners' = <<>>
              /\ audio_buf' = <<>>
              /\ audio'
              /\ stream' = "unset"
              /\ opened' = <<>>]_vars

FirstPulse(names) ==
    IF \E j \in 1..Len(names) : names[j] = "pulse"
    THEN (CHOOSE j \in 1..Len(names) :
              names[j] = "pulse" /\ \A m \in 1..(j - 1) : names[m] # "pulse") - 1
    ELSE 0

(* C7: the input device index of every stream opened, by HowlClient.start
   and by the demo's constructor, is the smallest index of a device named
   exactly "pulse", and 0 when there is none. *)
C7_PulseOrIndexZero ==
    \A i \in 1..Len(opened) : opened[i].input_device_index = FirstPulse(devs)

C7_Witness ==
    /\ program = "client"
    /\ Len(opened) = 1
    /\ devs = <<"hw:0", "Pulse", "pulse">>
    /\ opened[1].input_device_index = 2

(* C8: driven by the stream with the same chunks, HowlClient holds after
   every chunk the buffer InferenceClient holds, and returned what
   InferenceClient returns. *)
C8_ClientMatchesDemo ==
    (program = "client" /\ n = 0 /\ delivered > 0) =>
        /\ audio_buf = InferenceClient_buffer_after(delivered)
        /\ ret = InferenceClient_data_ok(Chunk(delivered))

(* C9: join() returns only when the stream is inactive, and a step that
   makes a stream inactive is never a step of the two classes (the handler
   with its inference and its notification, add_listener, from_pretrained,
   a start() that replaces the stream): while the stream stays active a
   thread blocked in join() stays blocked. *)
C9_JoinReturnsOnlyWhenInactive ==
    [][/\ (joinpc = "blocked" /\ joinpc' = "returned") => ~active
       /\ (joinpc = "blocked" /\ active') => joinpc' = "blocked"
       /\ (active /\ ~active') => StreamDeactivated
       /\ replaced' < replaced => StreamDeactivated
       /\ Len(opened') > Len(opened)
             => replaced' = replaced + (IF active THEN 1 ELSE 0)]_vars

(* C10: from_pretrained sets engine and context together or not at all: a
   failed fetch or a failed relocation leaves both as they were, after one
   hub load; a success sets both, and start() then passes its check. *)
C10_FromPretrainedAllOrNothing ==
    [][\A hubOk \in BOOLEAN, toOk \in BOOLEAN :
          from_pretrained(hubOk, toOk) =>
              /\ hubLoads' = 1
              /\ IF hubOk /\ toOk
                 THEN /\ engine' # "None"
                      /\ ctx' # "None"
                      /\ err' = "none"
                      /\ start_check(engine', ctx') = "none"
                 ELSE /\ engine' = engine
                      /\ ctx' = ctx
                      /\ err' \in {"HubError", "DeviceError"}]_vars

C10_Witness ==
    /\ engine = "hub"
    /\ ctx = "hub"
    /\ stream = "open"
    /\ hubLoads = 1

(* C19: from an empty buffer the sliding buffer holds at most 15 chunks
   whenever the handler has returned or raised, so with the chunk the
   handler appends it never holds more than 16, however many chunks were
   delivered; an engine or a listener that raises changes nothing, the two
   oldest chunks being dropped before engine.infer is called. *)
C19_BufferBounded ==
    /\ Len(audio_buf) <= 16
    /\ HandlerIdle => Len(audio_buf) <= 15
    /\ Len(audio_buf) <= n
    /\ err \in {"EngineError", "ListenerError", "AttributeError: no attribute 'device'"}
          => Len(audio_buf) = 14

C19_Witness ==
    /\ err = "ListenerError"
    /\ n = 18
    /\ Len(audio_buf) = 14

Reverse(xs) == [i \in 1..Len(xs) |-> xs[Len(xs) + 1 - i]]

(* C11: on a fresh transform, update(A) then update(B) leaves the total, mean
   and mean2 of one update on the concatenation of A and B, and those of
   update(B) then update(A); initialize over the tensors of a split dataset
   leaves the statistics of one update over the whole dataset. *)
C11_UpdateEqualsConcatenation ==
    (program = "train" /\ ~anyMask /\ updates >= 1) =>
        /\ zmuv = update(ZmuvTransform_init, Concat(fed), NoMask)
        /\ zmuv = initialize(ZmuvTransform_init, Reverse(fed))

(* C12: on a fresh transform a first unmasked update with N >= 1 identical
   values v leaves total = N, mean = v, mean2 = v * v, a radicand
   mean2 - mean * mean of 0 and so a std of exactly 0. *)
C12_IdenticalValues ==
    (/\ program = "train"
     /\ ~anyMask
     /\ updates = 1
     /\ Len(fed) = 1
     /\ Len(fed[1]) >= 1
     /\ \A i \in 1..Len(fed[1]) : fed[1][i] = fed[1][1]) =>
        /\ zmuv.total = Len(fed[1])
        /\ zmuv.mean = FromInt(fed[1][1])
        /\ zmuv.mean2 = FromInt(fed[1][1] * fed[1][1])
        /\ radicand(zmuv) = FZero
        /\ std(zmuv) = FZero

\* xs is xs[1..k] followed only by zeros.
ZeroPadded(row, wave) ==
    /\ Len(row) >= Len(wave)
    /\ SubSeq(row, 1, Len(wave)) = wave
    /\ \A i \in (Len(wave) + 1)..Len(row) : row[i] = 0

(* C17: for a non-empty list of examples batchify returns the lengths in
   non-increasing order, an audio tensor whose last dimension is the maximum
   length and whose i-th row is the i-th longest waveform followed only by
   zeros, and no label tensor. *)
C17_BatchifyPadsSorted ==
    (call.op = "batchify" /\ examples # <<>>) =>
        /\ err = "none"
        /\ Len(batch.lengths) = Len(examples)
        /\ Len(batch.audio_data) = Len(examples)
        /\ ~batch.labeled
        /\ \A i \in 1..(Len(batch.lengths) - 1) : batch.lengths[i] >= batch.lengths[i + 1]
        /\ \A i \in 1..Len(batch.lengths) :
              /\ batch.lengths[i] =
                    Len(examples[by_length([k \in 1..Len(examples) |->
                                               Len(examples[k].audio)])[i]].audio)
              /\ Len(batch.audio_data[i]) = batch.lengths[1]
              /\ \E k \in 1..Len(examples) :
                    /\ Len(examples[k].audio) = batch.lengths[i]
                    /\ ZeroPadded(batch.audio_data[i], examples[k].audio)
        /\ \A k \in 1..Len(examples) :
              \E i \in 1..Len(batch.audio_data) :
                  ZeroPadded(batch.audio_data[i], examples[k].audio)

(* C18: random_slice returns as many examples as it was given, in the same
   order; a waveform of L >= max_window_size samples is replaced by
   max_window_size contiguous samples of it starting at an offset of
   0..L - max_window_size, every one of these offsets being a possible
   outcome, both ends included; a shorter waveform is returned unchanged. *)
C18_RandomSliceWindow ==
    call.op = "random_slice" =>
        /\ Len(sliced) = Len(examples)
        /\ \A i \in 1..Len(examples) :
              LET L == Len(examples[i].audio)
                  w == call.arg
              IN  /\ sliced[i].ndim = examples[i].ndim
                  /\ sliced[i].frame_labels = examples[i].frame_labels
                  /\ L < w => sliced[i] = examples[i]
                  /\ L >= w =>
                        /\ Len(sliced[i].audio) = w
                        /\ \E a \in 0..(L - w) :
                              sliced[i].audio = SubSeq(examples[i].audio, a + 1, a + w)
                        /\ \A a \in 0..(L - w) :
                              LET offs == [call.draws EXCEPT ![i] = a]
                              IN  /\ offs \in random_slice_draws(examples, w)
                                  /\ random_slice(examples, w, offs)[i].audio
                                         = SubSeq(examples[i].audio, a + 1, a + w)

C18_Witness ==
    /\ call.op = "random_slice"
    /\ call.arg = 2
    /\ Len(examples) = 2
    /\ Len(examples[1].audio) = 3
    /\ Len(examples[2].audio) = 1
    /\ sliced[1].audio = SubSeq(examples[1].audio, 2, 3)
    /\ sliced[2] = examples[2]

\* The pass of the last WakeWordBatchifier call over its i-th example.
Pass(i) == call.draws[i]

\* wave is a run of consecutive samples of whole.
ContiguousIn(wave, whole) ==
    \E a \in 0..Len(whole) : wave = SubSeq(whole, a + 1, a + Len(wave))

(* C13: when the positive window is attempted for a labeled example and the
   chosen (end_ms, label) gives a span of width b - a = 0, the example goes
   down the negative path, whose two random draws are well defined, the call
   does not raise, and the one row emitted for the example carries
   negative_label, not the chosen label. *)
C13_ZeroWidthFallsBack ==
    call.op = "WakeWordBatchifier" =>
        \A i \in 1..Len(examples) :
            (Pass(i).attempted /\ Pass(i).span[2] - Pass(i).span[1] = 0) =>
                /\ Pass(i).path = "negative"
                /\ Pass(i).intervals # <<>>
                /\ \E k \in 1..Len(Pass(i).intervals) : Pass(i).chosen = Pass(i).intervals[k]
                /\ Pass(i).chosen[2] - Pass(i).chosen[1] > batchifier.window_size_ms
                      => Pass(i).chosen[2] - batchifier.window_size_ms >= 0
                /\ Len(Pass(i).new) = 1
                /\ Pass(i).new[1][1] = batchifier.negative_label
                /\ Pass(i).new[1][1] # Pass(i).item[2]
                /\ ContiguousIn(Pass(i).new[1][2].audio, examples[i].audio)
                /\ err = "none"
                /\ \E r \in 1..Len(batch.labels) :
                      /\ batch.labels[r] = batchifier.negative_label
                      /\ ZeroPadded(batch.audio_data[r], Pass(i).new[1][2].audio)

(* C14: an example without frame_labels is paired with negative_label
   whatever positive_sample_prob and the random draws are, and its audio is
   one run of consecutive samples of the original, of at most window_size_ms
   converted to samples at the configured sample_rate. *)
C14_UnlabeledIsNegative ==
    call.op = "WakeWordBatchifier" =>
        \A i \in 1..Len(examples) :
            examples[i].frame_labels = <<>> =>
                /\ Pass(i).path = "unlabeled"
                /\ Len(Pass(i).new) = 1
                /\ Pass(i).new[1][1] = batchifier.negative_label
                /\ Len(Pass(i).new[1][2].audio)
                      <= (batchifier.window_size_ms * batchifier.sample_rate) \div 1000
                /\ ContiguousIn(Pass(i).new[1][2].audio, examples[i].audio)
                /\ Len(examples[i].audio)
                      >= (batchifier.window_size_ms * batchifier.sample_rate) \div 1000
                      => Len(Pass(i).new[1][2].audio)
                            = (batchifier.window_size_ms * batchifier.sample_rate) \div 1000

C14_Witness ==
    /\ call.op = "WakeWordBatchifier"
    /\ batchifier.positive_sample_prob = 4
    /\ batchifier.window_size_ms = 1
    /\ Len(examples) = 1
    /\ examples[1].frame_labels = <<>>
    /\ Len(examples[1].audio) = 17
    /\ pairs[1][1] = 0
    /\ pairs[1][2].audio = SubSeq(examples[1].audio, 2, 17)

(* C15: on the negative path, when the chosen interval (a, b) is wider than
   window_size_ms, the span (a', a' + window_size_ms) that is cut lies inside
   it: a <= a' and a' + window_size_ms <= b. *)
C15_WindowInsideInterval ==
    call.op = "WakeWordBatchifier" =>
        \A i \in 1..Len(examples) :
            (/\ Pass(i).path = "negative"
             /\ Pass(i).chosen[2] - Pass(i).chosen[1] > batchifier.window_size_ms) =>
                /\ Pass(i).cut[2] = Pass(i).cut[1] + batchifier.window_size_ms
                /\ Pass(i).chosen[1] <= Pass(i).cut[1]
                /\ Pass(i).cut[2] <= Pass(i).chosen[2]

\* The open intervals (g[1], g[2]) and (e[1], e[2]) have a point in common.
Intersect(g, e) ==
    /\ g[1] < g[2]
    /\ e[1] < e[2]
    /\ g[1] < e[2]
    /\ e[1] < g[2]

\* The interval around every labeled end timestamp of ex.
EndTimeIntervals(ex) ==
    {<<ex.frame_labels[k][1] - batchifier.positive_delta_ms,
       ex.frame_labels[k][1] + batchifier.positive_delta_ms>> : k \in 1..Len(ex.frame_labels)}

(* C16: on the negative path the exclusion intervals are
   (end_ms - positive_delta_ms, end_ms + positive_delta_ms) for every end
   timestamp end_ms of frame_labels, and every negative interval before the
   final one intersects none of them. *)
C16_ExclusionAroundEndTimes ==
    call.op = "WakeWordBatchifier" =>
        \A i \in 1..Len(examples) :
            Pass(i).path = "negative" =>
                /\ {Pass(i).exclusion[k] : k \in 1..Len(Pass(i).exclusion)}
                      = EndTimeIntervals(examples[i])
                /\ \A k \in 1..(Len(Pass(i).intervals) - 1) :
                      \A e \in EndTimeIntervals(examples[i]) :
                          ~Intersect(Pass(i).intervals[k], e)

(* C20: a call on a non-empty list appends exactly one (label, window) pair
   for every example, also on the zero-width fallback, and returns audio
   rows, labels and lengths with one entry per example, in non-increasing
   order of window length, every label in the row of its own window. *)
C20_OnePairPerExample ==
    (call.op = "WakeWordBatchifier" /\ examples # <<>>) =>
        /\ \A i \in 1..Len(examples) : Len(Pass(i).new) = 1
        /\ Len(pairs) = Len(examples)
        /\ err = "none"
        /\ batch.labeled
        /\ Len(batch.audio_data) = Len(examples)
        /\ Len(batch.labels) = Len(examples)
        /\ Len(batch.lengths) = Len(examples)
        /\ \A r \in 1..(Len(batch.lengths) - 1) : batch.lengths[r] >= batch.lengths[r + 1]
        /\ \A r \in 1..Len(batch.lengths) :
              LET i == by_length([k \in 1..Len(pairs) |-> Len(pairs[k][2].audio)])[r]
              IN  /\ batch.labels[r] = pairs[i][1]
                  /\ batch.lengths[r] = Len(pairs[i][2].audio)
                  /\ ZeroPadded(batch.audio_data[r], pairs[i][2].audio)

====
